---- MODULE Spec2Model ----
(***************************************************************************)
(* Model of the agentic map front end: the HomeClient session controller   *)
(* (chat transcript, agent request lifecycle, model registry) and the      *)
(* MapView component it feeds (marker filter, view center, mount flag).    *)
(*                                                                         *)
(* Conventions.  A text is a sequence of one-character-or-longer tokens;   *)
(* the empty text is <<>>.  A JSON scalar is a record [t, n] whose t is    *)
(* what typeof / null-ness tells the code and whose n is the number        *)
(* (degrees scaled by 10^4) when t = "number".  Each action is one         *)
(* handler, effect or promise continuation, run to completion.             *)
(***************************************************************************)
EXTENDS Integers, Sequences, FiniteSets

VARIABLES
    phase,          \* HomeClient: "init" (constructed), "live" (effects ran), "dead" (torn down)
    lang,           \* useState<Lang>
    hasInteracted,  \* useState(false)
    messages,       \* useState<ChatMessage[]>
    input,          \* useState("")
    modelName,      \* useState("openai/gpt-4o-mini")
    modelOptions,   \* useState<ModelOption[]>
    modelsLoading,  \* useState(false)
    modelsError,    \* useState<string | null>
    modelOpen,      \* useState(false)
    mapCenter,      \* useState<MapCenter | null>
    mapPlaces,      \* useState<Place[]>
    status,         \* useState<"idle" | "thinking" | "error">
    error,          \* useState<string | null>
    isMounted,      \* the liveness flag closed over by loadModels
    modelsFetch,    \* the registry fetch: "none", "pending", then how it settled:
                    \* "fulfilled" or "rejected" before teardown, "discarded" after
    inflight,       \* agent calls awaiting their response: [id, prompt, model_name]
    nextId,         \* issue number of the next agent call
    mounted,        \* MapView: useState(false)
    mapKey,         \* MapView: the remount token, as the clock reading it was made from
    widgetInits,    \* history: MapContainer instances created
    setViewCalls,   \* history: calls of map.setView made by MapUpdater
    newestApplied   \* history: highest issue number among the agent calls whose
                    \* successful response has been applied (0: none yet)

vars == <<phase, lang, hasInteracted, messages, input, modelName, modelOptions,
          modelsLoading, modelsError, modelOpen, mapCenter, mapPlaces, status,
          error, isMounted, modelsFetch, inflight, nextId, mounted, mapKey,
          widgetInits, setViewCalls, newestApplied>>

-----------------------------------------------------------------------------
(* Bounds *)

\* Non-blank submissions explored.
MaxSubmits == 2

-----------------------------------------------------------------------------
(* Values *)

\* A text-valued slot: null, undefined (an absent JSON field) or a string.
TNull == [t |-> "null", v |-> <<>>]
TUndef == [t |-> "undefined", v |-> <<>>]
TStr(x) == [t |-> "string", v |-> x]

JUndef == [t |-> "undefined", n |-> 0]
JNull == [t |-> "null", n |-> 0]
JStr == [t |-> "string", n |-> 0]
JNum(x) == [t |-> "number", n |-> x]

\* typeof v === "number"
IsNumber(v) == v.t = "number"

\* JavaScript truthiness of a scalar (a string here is always a non-empty one).
Truthy(v) ==
    CASE v.t = "number" -> v.n # 0
      [] v.t = "string" -> TRUE
      [] OTHER -> FALSE

\* a || b
OrElse(a, b) == IF Truthy(a) THEN a ELSE b

DefaultLat == 410082
DefaultLon == 289784
DefaultModel == <<"openai/gpt-4o-mini">>
NoResponse == <<"No response.">>

Whitespace == {" ", "\t"}

RECURSIVE TrimStart(_)
TrimStart(s) ==
    IF s = <<>> THEN s
    ELSE IF Head(s) \in Whitespace THEN TrimStart(Tail(s)) ELSE s

RECURSIVE TrimEnd(_)
TrimEnd(s) ==
    IF s = <<>> THEN s
    ELSE IF s[Len(s)] \in Whitespace THEN TrimEnd(SubSeq(s, 1, Len(s) - 1)) ELSE s

\* A submission that forgot to trim.
TrimNothing(s) == s

\* String.prototype.trim
Trim(s) == TrimEnd(TrimStart(s))

\* COPY[lang]: the three scripted lines of each language.
Copy(l) ==
    IF l = "tr"
    THEN [chatAgent1 |-> <<"Merhaba!">>, chatUser |-> <<"Kadikoy'de">>,
          chatAgent2 |-> <<"Haritada">>]
    ELSE [chatAgent1 |-> <<"Hi!">>, chatUser |-> <<"Quiet">>,
          chatAgent2 |-> <<"I pinned">>]

Msg(r, x) == [role |-> r, text |-> x]

\* A seed effect that appends the scripted lines to what the transcript holds.
SeedMessagesAppended(l) ==
    messages \o << Msg("agent", Copy(l).chatAgent1),
                   Msg("user", Copy(l).chatUser),
                   Msg("agent", Copy(l).chatAgent2) >>

\* The transcript the seed effect installs.
SeedMessages(l) ==
    << Msg("agent", Copy(l).chatAgent1),
       Msg("user", Copy(l).chatUser),
       Msg("agent", Copy(l).chatAgent2) >>

Langs == {"tr", "en"}

\* What the user may have typed into the prompt field.
Inputs == { <<>>, <<"\t", " ">>, <<" ", "a", " ">> }

\* MapCenter objects as they arrive in a response body, and the null state.
NoCenter == [t |-> "null", lat |-> JUndef, lon |-> JUndef]
AbsentCenter == [t |-> "undefined", lat |-> JUndef, lon |-> JUndef]
Center(la, lo) == [t |-> "object", lat |-> la, lon |-> lo]

Place(nm, la, lo) == [name |-> nm, lat |-> la, lon |-> lo]

\* A places field: absent, or an array.
AbsentPlaces == [t |-> "undefined", v |-> <<>>]
PlaceArray(ps) == [t |-> "array", v |-> ps]

\* Sample coordinates: 41.05 N, 29.00 E.
Lat1 == JNum(410500)
Lon1 == JNum(290000)

PlaceA == Place("A", Lat1, Lon1)
PlaceB == Place("B", JNull, JNull)
PlaceC == Place("C", Lat1, JNull)
PlaceD == Place("D", JStr, Lon1)
PlaceE == Place("E", JNum(0), Lon1)

\* Bodies a 2xx answer of POST /agent/map may carry.
Responses ==
    { [response |-> TStr(<<"r1">>), center |-> Center(Lat1, Lon1),
       places |-> PlaceArray(<<PlaceA, PlaceB>>)],
      [response |-> TUndef, center |-> AbsentCenter, places |-> PlaceArray(<<>>)],
      [response |-> TStr(<<>>), center |-> Center(Lat1, JUndef),
       places |-> AbsentPlaces],
      [response |-> TStr(<<"r1">>), center |-> Center(JNum(0), Lon1),
       places |-> PlaceArray(<<PlaceC, PlaceE, PlaceD>>)],
      [response |-> TStr(<<"r1">>), center |-> Center(JNull, Lon1),
       places |-> PlaceArray(<<PlaceB, PlaceA>>)],
      [response |-> TStr(<<"r1">>), center |-> Center(Lat1, JStr),
       places |-> AbsentPlaces] }

\* Ways a call fails: fetch rejects, a non-2xx status (whose body may carry a
\* detail), or a 2xx body that does not parse.
Failures ==
    { [kind |-> "network", detail |-> TUndef, code |-> "0"],
      [kind |-> "status", detail |-> TStr(<<"quota">>), code |-> "500"],
      [kind |-> "status", detail |-> TUndef, code |-> "500"],
      [kind |-> "json", detail |-> TUndef, code |-> "200"] }

\* The message of the Error handleSubmit's catch block receives.
AgentErrorMessage(f) ==
    CASE f.kind = "network" -> <<"Failed to fetch">>
      [] f.kind = "status" ->
            IF f.detail.t = "string" /\ f.detail.v # <<>> THEN f.detail.v
            ELSE <<"Request failed (", f.code, ")">>
      [] OTHER -> <<"Unexpected token">>

\* The message of the Error loadModels' catch block receives.
ModelsErrorMessage(f) ==
    CASE f.kind = "network" -> <<"Failed to fetch">>
      [] f.kind = "status" -> <<"Model list failed (", f.code, ")">>
      [] OTHER -> <<"Unexpected token">>

ModelM1 == [id |-> <<"m1">>, name |-> <<"Model 1">>]

\* Ways the registry fetch fails.
RegistryFailures == { f \in Failures : f.kind # "json" /\ f.detail.t = "undefined" }

\* Bodies a 2xx answer of GET /models/openrouter may carry in its data field:
\* no list, an empty list, a list with one model.
RegistryBodies ==
    { AbsentPlaces, PlaceArray(<<>>), PlaceArray(<<ModelM1>>) }

-----------------------------------------------------------------------------
(* MapView: pure render-time computations *)

\* A marker filter that looks at the latitude only.
MarkersLatOnly(places) == SelectSeq(places, LAMBDA p : IsNumber(p.lat))

\* markers: the places with a numeric lat and a numeric lon, in order.
Markers(places) ==
    SelectSeq(places, LAMBDA p : IsNumber(p.lat) /\ IsNumber(p.lon))

\* The center prop handed to MapContainer.
ViewCenter(center) ==
    << OrElse(center.lat, JNum(DefaultLat)), OrElse(center.lon, JNum(DefaultLon)) >>

DefaultMarker == [name |-> "Istanbul merkez", position |-> <<JNum(DefaultLat), JNum(DefaultLon)>>]

MarkerOf(p) == [name |-> p.name, position |-> <<p.lat, p.lon>>]

\* A marker layer without the fallback marker.
RenderedMarkersNoFallback(places) ==
    [i \in 1..Len(Markers(places)) |-> MarkerOf(Markers(places)[i])]

\* The <Marker> children of the mounted MapContainer.
RenderedMarkers(places) ==
    IF Len(Markers(places)) > 0
    THEN [i \in 1..Len(Markers(places)) |-> MarkerOf(Markers(places)[i])]
    ELSE <<DefaultMarker>>

\* MapUpdater's test: center?.lat && center?.lon
Recenters(center) == Truthy(center.lat) /\ Truthy(center.lon)

\* setViewCalls after a commit: MapUpdater's effect runs when the widget is on
\* screen and the center prop is a new object (or the widget has just
\* mounted), and calls map.setView when its test passes.
SetViewAfter(effectRuns, center) ==
    IF effectRuns /\ Recenters(center) THEN setViewCalls + 1 ELSE setViewCalls

-----------------------------------------------------------------------------
(* Initial state: every useState initializer *)

Init ==
    /\ phase = "init"
    /\ lang = "en"
    /\ hasInteracted = FALSE
    /\ messages = <<>>
    /\ input = <<>>
    /\ modelName = DefaultModel
    /\ modelOptions = <<>>
    /\ modelsLoading = FALSE
    /\ modelsError = TNull
    /\ modelOpen = FALSE
    /\ mapCenter = NoCenter
    /\ mapPlaces = <<>>
    /\ status = "idle"
    /\ error = TNull
    /\ isMounted = FALSE
    /\ modelsFetch = "none"
    /\ inflight = {}
    /\ nextId = 1
    /\ mounted = FALSE
    /\ mapKey = 0
    /\ widgetInits = 0
    /\ setViewCalls = 0
    /\ newestApplied = 0

-----------------------------------------------------------------------------
(* HomeClient *)

agentState == <<messages, mapCenter, mapPlaces, status, error, inflight, nextId, newestApplied>>
registryState == <<modelOptions, modelsLoading, modelsError, isMounted, modelsFetch>>
mapViewState == <<mounted, mapKey, widgetInits, setViewCalls>>

\* First commit: the seed effect and the loadModels effect run.
Mount ==
    /\ phase = "init"
    /\ phase' = "live"
    /\ messages' = IF hasInteracted THEN messages ELSE SeedMessages(lang)
    /\ isMounted' = TRUE
    /\ modelsLoading' = TRUE
    /\ modelsError' = TNull
    /\ modelsFetch' = "pending"
    /\ UNCHANGED <<lang, hasInteracted, input, modelName, modelOptions, modelOpen,
                   mapCenter, mapPlaces, status, error, inflight, nextId, newestApplied>>
    /\ UNCHANGED mapViewState

\* Teardown: the loadModels effect's cleanup.
Unmount ==
    /\ phase = "live"
    /\ phase' = "dead"
    /\ isMounted' = FALSE
    /\ UNCHANGED <<lang, hasInteracted, input, modelName, modelOpen>>
    /\ UNCHANGED <<modelOptions, modelsLoading, modelsError, modelsFetch>>
    /\ UNCHANGED agentState
    /\ UNCHANGED mapViewState

\* A seed effect that does not look at hasInteracted.
SetLangAlwaysSeeds(l) ==
    /\ phase = "live"
    /\ lang' = l
    /\ messages' = IF l # lang THEN SeedMessages(l) ELSE messages
    /\ UNCHANGED <<phase, hasInteracted, input, modelName, modelOpen>>
    /\ UNCHANGED <<mapCenter, mapPlaces, status, error, inflight, nextId, newestApplied>>
    /\ UNCHANGED <<modelOptions, modelsLoading, modelsError, isMounted, modelsFetch>>
    /\ UNCHANGED <<mounted, mapKey, widgetInits, setViewCalls>>

\* The language buttons; the seed effect re-runs when t changed.
SetLang(l) ==
    /\ phase = "live"
    /\ lang' = l
    /\ messages' = IF l # lang /\ ~hasInteracted THEN SeedMessages(l) ELSE messages
    /\ UNCHANGED <<phase, hasInteracted, input, modelName, modelOpen>>
    /\ UNCHANGED <<mapCenter, mapPlaces, status, error, inflight, nextId, newestApplied>>
    /\ UNCHANGED registryState
    /\ UNCHANGED mapViewState

\* The prompt field's onChange.
SetInput(s) ==
    /\ phase = "live"
    /\ input' = s
    /\ UNCHANGED <<phase, lang, hasInteracted, modelName, modelOpen>>
    /\ UNCHANGED agentState
    /\ UNCHANGED registryState
    /\ UNCHANGED mapViewState

\* handleSubmit up to its await: the early return, or the five setters and
\* the fetch.
HandleSubmit ==
    /\ phase = "live"
    /\ LET prompt == Trim(input) IN
       \/ /\ prompt = <<>>
          /\ UNCHANGED <<lang, hasInteracted, input, modelName, modelOpen>>
          /\ UNCHANGED agentState
       \/ /\ prompt # <<>>
          /\ nextId <= MaxSubmits
          /\ hasInteracted' = TRUE
          /\ input' = <<>>
          /\ error' = TNull
          /\ status' = "thinking"
          /\ messages' = Append(messages, Msg("user", prompt))
          /\ inflight' = inflight \cup
                {[id |-> nextId, prompt |-> prompt, model_name |-> modelName]}
          /\ nextId' = nextId + 1
          /\ UNCHANGED <<lang, modelName, modelOpen, mapCenter, mapPlaces, newestApplied>>
    /\ UNCHANGED phase
    /\ UNCHANGED registryState
    /\ UNCHANGED mapViewState

\* data.response ?? "No response.": the fallback for an absent text only.
ResponseTextNullish(data) ==
    IF data.response.t = "string" THEN data.response.v ELSE NoResponse

\* data.response || "No response."
ResponseText(data) ==
    IF data.response.t = "string" /\ data.response.v # <<>>
    THEN data.response.v ELSE NoResponse

\* data.center && typeof data.center.lat === "number"
CenterAccepted(data) == data.center.t = "object" /\ IsNumber(data.center.lat)

\* A continuation that adds the places of the response to those already held.
AgentResolveMerging(r, data) ==
    /\ r \in inflight
    /\ inflight' = inflight \ {r}
    /\ messages' = Append(messages, Msg("agent", ResponseText(data)))
    /\ mapCenter' = IF CenterAccepted(data) THEN data.center ELSE mapCenter
    /\ mapPlaces' = IF data.places.t = "array" THEN mapPlaces \o data.places.v ELSE mapPlaces
    /\ status' = "idle"
    /\ newestApplied' = IF r.id > newestApplied THEN r.id ELSE newestApplied
    /\ setViewCalls' = SetViewAfter(mounted /\ phase = "live" /\ CenterAccepted(data),
                                    data.center)
    /\ mapKey' = mapKey
    /\ widgetInits' = widgetInits
    /\ UNCHANGED <<phase, lang, hasInteracted, input, modelName, modelOpen, error, nextId>>
    /\ UNCHANGED <<modelOptions, modelsLoading, modelsError, isMounted, modelsFetch>>
    /\ UNCHANGED mounted

\* A map that is given a new remount token whenever a response moves the center.
AgentResolveRemounts(r, data) ==
    /\ r \in inflight
    /\ inflight' = inflight \ {r}
    /\ messages' = Append(messages, Msg("agent", ResponseText(data)))
    /\ mapCenter' = IF CenterAccepted(data) THEN data.center ELSE mapCenter
    /\ mapPlaces' = IF data.places.t = "array" THEN data.places.v ELSE mapPlaces
    /\ status' = "idle"
    /\ newestApplied' = IF r.id > newestApplied THEN r.id ELSE newestApplied
    /\ setViewCalls' = SetViewAfter(mounted /\ phase = "live" /\ CenterAccepted(data),
                                    data.center)
    /\ mapKey' = IF mounted /\ CenterAccepted(data) THEN mapKey + 1 ELSE mapKey
    /\ widgetInits' = IF mounted /\ CenterAccepted(data) THEN widgetInits + 1 ELSE widgetInits
    /\ UNCHANGED <<phase, lang, hasInteracted, input, modelName, modelOpen, error, nextId>>
    /\ UNCHANGED <<modelOptions, modelsLoading, modelsError, isMounted, modelsFetch>>
    /\ UNCHANGED mounted

\* handleSubmit after its await, the call having answered 2xx with a JSON object.
\* Unlike loadModels, this continuation tests no liveness flag: its setters are
\* called whether or not the component has been torn down meanwhile.  The
\* commit that follows re-runs MapUpdater's effect when setMapCenter was called.
AgentResolve(r, data) ==
    /\ r \in inflight
    /\ inflight' = inflight \ {r}
    /\ messages' = Append(messages, Msg("agent", ResponseText(data)))
    /\ mapCenter' = IF CenterAccepted(data) THEN data.center ELSE mapCenter
    /\ mapPlaces' = IF data.places.t = "array" THEN data.places.v ELSE mapPlaces
    /\ status' = "idle"
    /\ newestApplied' = IF r.id > newestApplied THEN r.id ELSE newestApplied
    /\ setViewCalls' = SetViewAfter(mounted /\ phase = "live" /\ CenterAccepted(data),
                                    data.center)
    /\ mapKey' = mapKey
    /\ widgetInits' = widgetInits
    /\ UNCHANGED <<phase, lang, hasInteracted, input, modelName, modelOpen, error, nextId>>
    /\ UNCHANGED <<modelOptions, modelsLoading, modelsError, isMounted, modelsFetch>>
    /\ UNCHANGED mounted

\* A catch block that also reports the failure as a chat bubble.
AgentRejectWithBubble(r, f) ==
    /\ r \in inflight
    /\ inflight' = inflight \ {r}
    /\ status' = "error"
    /\ error' = TStr(AgentErrorMessage(f))
    /\ messages' = Append(messages, Msg("agent", AgentErrorMessage(f)))
    /\ UNCHANGED <<phase, lang, hasInteracted, input, modelName, modelOpen>>
    /\ UNCHANGED <<mapCenter, mapPlaces, nextId, newestApplied>>
    /\ UNCHANGED <<modelOptions, modelsLoading, modelsError, isMounted, modelsFetch>>
    /\ UNCHANGED <<mounted, mapKey, widgetInits, setViewCalls>>

\* A catch block that records the message and leaves status as it was.
AgentRejectKeepsThinking(r, f) ==
    /\ r \in inflight
    /\ inflight' = inflight \ {r}
    /\ status' = status
    /\ error' = TStr(AgentErrorMessage(f))
    /\ UNCHANGED <<phase, lang, hasInteracted, input, modelName, modelOpen>>
    /\ UNCHANGED <<messages, mapCenter, mapPlaces, nextId, newestApplied>>
    /\ UNCHANGED <<modelOptions, modelsLoading, modelsError, isMounted, modelsFetch>>
    /\ UNCHANGED <<mounted, mapKey, widgetInits, setViewCalls>>

\* handleSubmit's catch block.
AgentReject(r, f) ==
    /\ r \in inflight
    /\ inflight' = inflight \ {r}
    /\ status' = "error"
    /\ error' = TStr(AgentErrorMessage(f))
    /\ UNCHANGED <<phase, lang, hasInteracted, input, modelName, modelOpen>>
    /\ UNCHANGED <<messages, mapCenter, mapPlaces, nextId, newestApplied>>
    /\ UNCHANGED registryState
    /\ UNCHANGED mapViewState

-----------------------------------------------------------------------------
(* Model registry *)

\* A continuation that applies its result whether or not the effect was cleaned up.
StillInterestedAlways == TRUE

\* The liveness test loadModels makes before each setter.
StillInterested == isMounted

\* The closing of the menu by the [modelName] effect.
MenuAfter(newName) == IF newName # modelName THEN FALSE ELSE modelOpen

\* loadModels after its awaits, the fetch having answered 2xx with a JSON object.
LoadModelsResolve(body) ==
    /\ modelsFetch = "pending"
    /\ modelsFetch' = IF phase = "dead" THEN "discarded" ELSE "fulfilled"
    /\ IF StillInterested /\ body.t = "array"
       THEN /\ modelOptions' = body.v
            /\ modelName' = IF Len(body.v) > 0 THEN body.v[1].id ELSE modelName
            /\ modelOpen' = MenuAfter(modelName')
       ELSE UNCHANGED <<modelOptions, modelName, modelOpen>>
    /\ modelsLoading' = IF StillInterested THEN FALSE ELSE modelsLoading
    /\ UNCHANGED <<phase, lang, hasInteracted, input, modelsError, isMounted>>
    /\ UNCHANGED agentState
    /\ UNCHANGED mapViewState

\* A catch block with no finally after it: the loading flag is left set.
LoadModelsRejectNoFinally(f) ==
    /\ modelsFetch = "pending"
    /\ modelsFetch' = IF phase = "dead" THEN "discarded" ELSE "rejected"
    /\ IF StillInterested
       THEN /\ modelOptions' = <<>>
            /\ modelsError' = TStr(ModelsErrorMessage(f))
       ELSE UNCHANGED <<modelOptions, modelsError>>
    /\ UNCHANGED <<phase, lang, hasInteracted, input, modelName, modelOpen, isMounted,
                   modelsLoading>>
    /\ UNCHANGED agentState
    /\ UNCHANGED mapViewState

\* loadModels' catch and finally blocks.
LoadModelsReject(f) ==
    /\ modelsFetch = "pending"
    /\ modelsFetch' = IF phase = "dead" THEN "discarded" ELSE "rejected"
    /\ IF StillInterested
       THEN /\ modelOptions' = <<>>
            /\ modelsError' = TStr(ModelsErrorMessage(f))
       ELSE UNCHANGED <<modelOptions, modelsError>>
    /\ modelsLoading' = IF StillInterested THEN FALSE ELSE modelsLoading
    /\ UNCHANGED <<phase, lang, hasInteracted, input, modelName, modelOpen, isMounted>>
    /\ UNCHANGED agentState
    /\ UNCHANGED mapViewState

\* The model trigger button (disabled while loading or without options); the
\* overlay's click, possible only while the menu is open, makes the same change.
ToggleModelOpen ==
    /\ phase = "live"
    /\ ~modelsLoading
    /\ Len(modelOptions) > 0
    /\ modelOpen' = ~modelOpen
    /\ UNCHANGED <<phase, lang, hasInteracted, input, modelName>>
    /\ UNCHANGED agentState
    /\ UNCHANGED registryState
    /\ UNCHANGED mapViewState

\* A click on an entry of the open menu.
SelectModel(i) ==
    /\ phase = "live"
    /\ modelOpen
    /\ i \in 1..Len(modelOptions)
    /\ modelName' = modelOptions[i].id
    /\ modelOpen' = FALSE
    /\ UNCHANGED <<phase, lang, hasInteracted, input>>
    /\ UNCHANGED agentState
    /\ UNCHANGED registryState
    /\ UNCHANGED mapViewState

-----------------------------------------------------------------------------
(* MapView *)

\* MapView's mount effect: setMounted(true) and a token from a later clock
\* reading; the commit that follows creates the MapContainer under that token
\* and runs MapUpdater's effect for the first time.
MapViewMount ==
    /\ phase = "live"
    /\ ~mounted
    /\ mounted' = TRUE
    /\ mapKey' \in {mapKey, mapKey + 1}
    /\ widgetInits' = widgetInits + 1
    /\ setViewCalls' = SetViewAfter(TRUE, mapCenter)
    /\ UNCHANGED <<phase, lang, hasInteracted, input, modelName, modelOpen>>
    /\ UNCHANGED agentState
    /\ UNCHANGED registryState

-----------------------------------------------------------------------------

Next ==
    \/ Mount
    \/ Unmount
    \/ \E l \in Langs : SetLang(l)
    \/ \E s \in Inputs : SetInput(s)
    \/ HandleSubmit
    \/ \E r \in inflight, data \in Responses : AgentResolve(r, data)
    \/ \E r \in inflight, f \in Failures : AgentReject(r, f)
    \/ \E body \in RegistryBodies : LoadModelsResolve(body)
    \/ \E f \in RegistryFailures : LoadModelsReject(f)
    \/ ToggleModelOpen
    \/ \E i \in 1..Len(modelOptions) : SelectModel(i)
    \/ MapViewMount

Spec == Init /\ [][Next]_vars

\* The agent call with identity i settles: its fetch promise is fulfilled
\* with some body or rejected with some failure.
AgentSettles(i) ==
    \E r \in inflight :
        /\ r.id = i
        /\ \/ \E data \in Responses : AgentResolve(r, data)
           \/ \E f \in Failures : AgentReject(r, f)

\* The network completes every call it was handed: an issued call stays
\* enabled to settle until it does, so weak fairness per call is enough.
FairSpec == Spec /\ \A i \in 1..MaxSubmits : WF_vars(AgentSettles(i))

-----------------------------------------------------------------------------
(* Vocabulary of the properties *)

\* s is empty or holds whitespace only.
IsBlank(s) == \A i \in 1..Len(s) : s[i] \in Whitespace

\* t is s without its leading and trailing whitespace, s not being blank.
IsTrimmed(t, s) ==
    \E i \in 1..Len(s) : \E j \in i..Len(s) :
        /\ t = SubSeq(s, i, j)
        /\ s[i] \notin Whitespace
        /\ s[j] \notin Whitespace
        /\ \A k \in 1..Len(s) : (k < i \/ k > j) => s[k] \in Whitespace

\* p is a prefix of q.
IsPrefix(p, q) == Len(p) <= Len(q) /\ SubSeq(q, 1, Len(p)) = p

\* A place the map can draw: both coordinates present and numeric.
Renderable(p) == p.lat.t = "number" /\ p.lon.t = "number"

\* The state C2 speaks of: transcript, status, error, hasInteracted, input,
\* model selection, map center, map places, and the calls issued.
submitFootprint == <<messages, status, error, hasInteracted, input, modelName,
                     mapCenter, mapPlaces, inflight, nextId>>

-----------------------------------------------------------------------------
(* Properties *)

\* C1 (as claimed; the code violates it): when the successful response of an
\* agent call is applied after the successful response of a call issued later
\* has been applied, the stale response changes neither the transcript nor
\* the map center nor the map places.
C1_StaleResponseDiscarded ==
    [][ \A r \in inflight :
            (r \notin inflight' /\ r.id < newestApplied)
                => UNCHANGED <<messages, mapCenter, mapPlaces>> ]_vars

\* C2: a handleSubmit step taken while the input is empty or whitespace-only
\* changes nothing: transcript, status, error, hasInteracted, input, model
\* selection, map center and places stay as they are and no call is issued.
C2_BlankSubmitIsNoOp ==
    [][ (HandleSubmit /\ IsBlank(input))
            => (UNCHANGED submitFootprint /\ UNCHANGED vars) ]_vars

\* C2 witness: a live session holding a non-empty whitespace-only input while
\* a call is in flight and an earlier error is on display; handleSubmit is
\* enabled there and, being a no-op, leaves exactly this state.
C2_Witness ==
    /\ phase = "live"
    /\ input # <<>>
    /\ IsBlank(input)
    /\ inflight # {}
    /\ error.t = "string"

\* C3: a handleSubmit step from a non-blank input appends exactly one user
\* message carrying the trimmed text, sets status to thinking and clears the
\* error; a step applying a successful response appends exactly one agent
\* message, whose text is the response text, or "No response." when that
\* text is absent or empty; and no step shortens the transcript.
C3_SubmitAndReplyAppendOne ==
    [][ /\ (HandleSubmit /\ ~IsBlank(input)) =>
              /\ Len(messages') = Len(messages) + 1
              /\ SubSeq(messages', 1, Len(messages)) = messages
              /\ messages'[Len(messages')].role = "user"
              /\ IsTrimmed(messages'[Len(messages')].text, input)
              /\ status' = "thinking"
              /\ error' = TNull
        /\ \A r \in inflight : \A data \in Responses :
              AgentResolve(r, data) =>
                  messages' = Append(messages,
                      [role |-> "agent",
                       text |-> IF data.response.t = "string" /\ data.response.v # <<>>
                                THEN data.response.v
                                ELSE <<"No response.">>])
        /\ Len(messages') >= Len(messages) ]_vars

\* C3 witness: a prompt typed with surrounding blanks stands trimmed in the
\* transcript, answered by the fallback text, with the session back to idle.
C3_Witness ==
    /\ status = "idle"
    /\ Len(messages) >= 2
    /\ messages[Len(messages) - 1] = [role |-> "user", text |-> <<"a">>]
    /\ messages[Len(messages)] = [role |-> "agent", text |-> <<"No response.">>]

\* C4 (as claimed; the code violates it): in every step the transcript
\* before the step is a prefix of the transcript after it.
C4_EveryStepAppends ==
    [][ IsPrefix(messages, messages') ]_vars

\* C4 (amended): in every step other than a language change made before the
\* first submission, the transcript before the step is a prefix of the
\* transcript after it.
C4_AppendOnlyOnceInteracted ==
    [][ (hasInteracted \/ lang' = lang) => IsPrefix(messages, messages') ]_vars

\* C4 witness: the language was changed after the first submission and the
\* transcript still opens with the seed of the earlier language, followed by
\* the user's prompt and a reply.
C4_Witness ==
    /\ hasInteracted
    /\ lang = "tr"
    /\ Len(messages) >= 5
    /\ SubSeq(messages, 1, 3) = SeedMessages("en")
    /\ messages[4].role = "user"
    /\ messages[5].role = "agent"

\* C5: a step in which an agent call fails sets status to error, stores a
\* non-null error message, appends nothing to the transcript and leaves the
\* map center and the map places as they were.
C5_FailureLeavesTranscriptAndMap ==
    [][ \A r \in inflight : \A f \in Failures :
            AgentReject(r, f) =>
                /\ status' = "error"
                /\ error'.t = "string"
                /\ messages' = messages
                /\ mapCenter' = mapCenter
                /\ mapPlaces' = mapPlaces ]_vars

\* C5 witness: a call failed after an earlier response had filled the map;
\* the error is up, the map still shows that response.
C5_Witness ==
    /\ status = "error"
    /\ error.t = "string"
    /\ inflight = {}
    /\ mapCenter.t = "object"
    /\ mapPlaces # <<>>
    /\ messages[Len(messages)].role = "user"

\* The positions of the renderable places of ps, in increasing order.
RenderableAt(ps) == {i \in 1..Len(ps) : Renderable(ps[i])}

\* m is the sub-sequence of ps made of its renderable places, in order.
IsRenderableSubSeq(m, ps) ==
    /\ Len(m) = Cardinality(RenderableAt(ps))
    /\ \A k \in 1..Len(m) :
          \E i \in RenderableAt(ps) :
              /\ Cardinality({j \in RenderableAt(ps) : j <= i}) = k
              /\ m[k] = ps[i]

\* C6: the marker list is exactly the sub-sequence of the place list, in its
\* order, made of the places whose lat and lon are both numeric; for the
\* places [A(41.05, 29.00), B(null, null)] it is [A].
C6_MarkersAreRenderablePlaces ==
    /\ IsRenderableSubSeq(Markers(mapPlaces), mapPlaces)
    /\ Markers(<<PlaceA, PlaceB>>) = <<PlaceA>>

\* C6 witness: a place list holding a place with a numeric lat and a null
\* lon, one with a string lat, and one renderable place between them.
C6_Witness ==
    /\ mapPlaces = <<PlaceC, PlaceE, PlaceD>>
    /\ Markers(mapPlaces) = <<PlaceE>>

\* C7: while the map widget is mounted at least one marker is rendered; with
\* no renderable place it is exactly one marker, at (41.0082, 28.9784); with
\* renderable places there is one marker per renderable place and none of
\* them is the default marker.
C7_NeverZeroMarkers ==
    mounted =>
        LET shown == RenderedMarkers(mapPlaces)
            n == Cardinality(RenderableAt(mapPlaces))
        IN  /\ Len(shown) >= 1
            /\ n = 0 =>
                  /\ Len(shown) = 1
                  /\ shown[1].position = <<JNum(410082), JNum(289784)>>
            /\ n > 0 =>
                  /\ Len(shown) = n
                  /\ \A k \in 1..Len(shown) : shown[k] # DefaultMarker

\* C7 witness: the widget is mounted and a response with places = [] has
\* emptied a place list that held a renderable place.
C7_Witness ==
    /\ mounted
    /\ mapPlaces = <<>>
    /\ mapCenter = Center(Lat1, Lon1)
    /\ RenderedMarkers(mapPlaces) = <<DefaultMarker>>

\* C8 (as claimed; the code violates it): the stored map center is null or
\* has a numeric lat and a numeric lon, and the view center is the stored
\* center's own pair or the fallback pair, never one of each.
C8_CenterWholeOrDefault ==
    /\ mapCenter.t = "null" \/ (mapCenter.lat.t = "number" /\ mapCenter.lon.t = "number")
    /\ \/ ViewCenter(mapCenter) = <<mapCenter.lat, mapCenter.lon>>
       \/ ViewCenter(mapCenter) = <<JNum(410082), JNum(289784)>>

\* C9: once the registry fetch has failed before teardown, the option list
\* is empty, a registry error is stored, loading is over, the selection is
\* the default identifier, and every agent call in flight carries it.
C9_RegistryFailureKeepsDefault ==
    modelsFetch = "rejected" =>
        /\ modelOptions = <<>>
        /\ modelsError.t = "string"
        /\ modelsLoading = FALSE
        /\ modelName = <<"openai/gpt-4o-mini">>
        /\ \A r \in inflight : r.model_name = <<"openai/gpt-4o-mini">>

\* C9 witness: the registry fetch has failed and a submission is in flight.
C9_Witness ==
    /\ modelsFetch = "rejected"
    /\ phase = "live"
    /\ status = "thinking"
    /\ inflight # {}

\* C10: a step that settles the registry fetch after teardown changes none
\* of modelOptions, the model selection, modelsError and modelsLoading.
C10_LateRegistryAnswerDiscarded ==
    [][ (phase = "dead" /\ modelsFetch = "pending" /\ modelsFetch' # "pending")
            => UNCHANGED <<modelOptions, modelName, modelsError, modelsLoading>> ]_vars

\* C10 witness: the fetch settled after teardown and the registry state is
\* still the one loadModels left before its await.
C10_Witness ==
    /\ phase = "dead"
    /\ modelsFetch = "discarded"
    /\ modelsLoading = TRUE
    /\ modelOptions = <<>>

\* C11 (as claimed; the code violates it): a step in which an agent call
\* settles after teardown changes none of the transcript, the status, the
\* error message, the map center and the map places.
C11_LateAgentAnswerDiscarded ==
    [][ (phase = "dead" /\ inflight' # inflight)
            => UNCHANGED <<messages, status, error, mapCenter, mapPlaces>> ]_vars

\* The status changes the session state machine allows.
StatusTransitions ==
    { <<"idle", "thinking">>, <<"thinking", "idle">>,
      <<"thinking", "error">>, <<"error", "thinking">> }

\* C12 (as claimed; the code violates it): whenever the status changes, it
\* changes along idle -> thinking, thinking -> idle, thinking -> error or
\* error -> thinking.
C12_StatusMachine ==
    [][ status' # status => <<status, status'>> \in StatusTransitions ]_vars

\* C13 (as claimed; the code violates it): at most one agent call is in
\* flight.
C13_AtMostOneInFlight ==
    Cardinality(inflight) <= 1

\* C14 (as claimed; the code violates it): once a submission has been made,
\* the transcript opens with a user message and holds no seed message of
\* either language.
C14_SeedReplacedBySubmission ==
    hasInteracted =>
        /\ messages[1].role = "user"
        /\ \A i \in 1..Len(messages) : \A l \in {"tr", "en"} :
              \A k \in 1..3 : messages[i] # SeedMessages(l)[k]

\* The scripted exchange of a language: agent greeting, sample user query,
\* agent sample reply.
ScriptedExchange(l) ==
    IF l = "tr"
    THEN << [role |-> "agent", text |-> <<"Merhaba!">>],
            [role |-> "user", text |-> <<"Kadikoy'de">>],
            [role |-> "agent", text |-> <<"Haritada">>] >>
    ELSE << [role |-> "agent", text |-> <<"Hi!">>],
            [role |-> "user", text |-> <<"Quiet">>],
            [role |-> "agent", text |-> <<"I pinned">>] >>

\* C15: after every step that leaves the component past its first commit
\* with hasInteracted false, the transcript is exactly the three-message
\* scripted exchange of the active language; hasInteracted never returns to
\* false; and once it is true a language change leaves the transcript as it is.
C15_SeedFollowsLanguage ==
    [][ /\ (phase' # "init" /\ ~hasInteracted') => messages' = ScriptedExchange(lang')
        /\ hasInteracted => hasInteracted'
        /\ (hasInteracted /\ lang' # lang) => messages' = messages ]_vars

\* C15 witness: before any submission the language was switched to Turkish
\* and the transcript is the Turkish exchange alone.
C15_Witness ==
    /\ phase = "live"
    /\ ~hasInteracted
    /\ lang = "tr"
    /\ Len(messages) = 3
    /\ messages[1].text = <<"Merhaba!">>

\* C16: a step applying a successful response sets the place list to the
\* response's places array when it carries one (an empty array empties it)
\* and leaves it unchanged otherwise; no other step changes the place list;
\* and the marker list is always the renderable filter of that one list.
C16_PlacesReplacedWholesale ==
    /\ [][ /\ \A r \in inflight \ inflight' : \A data \in Responses :
                 AgentResolve(r, data) =>
                     mapPlaces' = IF data.places.t = "array" THEN data.places.v
                                  ELSE mapPlaces
           /\ mapPlaces' # mapPlaces =>
                 \E r \in inflight \ inflight' : \E data \in Responses :
                     AgentResolve(r, data) ]_vars
    /\ [] IsRenderableSubSeq(Markers(mapPlaces), mapPlaces)

\* C16 witness: the response carrying [A, B] and the valid center was applied
\* and a later response carrying [B, A] replaced its places.
C16_Witness ==
    /\ mapCenter = Center(Lat1, Lon1)
    /\ mapPlaces = <<PlaceB, PlaceA>>
    /\ Markers(mapPlaces) = <<PlaceA>>
    /\ inflight = {}

\* C17: under FairSpec (every issued agent call eventually settles), status
\* thinking always leads to status idle or error; in every state with no
\* agent call outstanding status is not thinking; and a non-blank submission
\* made while status is error is accepted: it issues a call, clears the
\* stored error and moves status to thinking.
C17_AlwaysBackToInteractive ==
    /\ [](inflight = {} => status # "thinking")
    /\ [][ (status = "error" /\ ~IsBlank(input) /\ HandleSubmit)
              => /\ status' = "thinking"
                 /\ error' = TNull
                 /\ Cardinality(inflight') = Cardinality(inflight) + 1 ]_vars
    /\ (status = "thinking") ~> (status \in {"idle", "error"})

\* C17 witness: the first call failed and was reported (nothing of it was
\* applied), then a second submission was made from status error: one call
\* is outstanding, the error is cleared and status is thinking again.
C17_Witness ==
    /\ phase = "live"
    /\ nextId = 3
    /\ newestApplied = 0
    /\ Cardinality(inflight) = 1
    /\ \A r \in inflight : r.id = 2
    /\ status = "thinking"
    /\ error = TNull

\* A center whose two coordinates are both numbers.
ValidCenter(c) == c.t = "object" /\ IsNumber(c.lat) /\ IsNumber(c.lon)

\* C18 (as claimed; the code violates it): setView is invoked only in a step that supplies the map a new
\* center with valid coordinates: the adapter's mount with a valid stored
\* center, or the application of a successful response carrying a valid
\* center; no other step (a response with an absent or invalid center, a
\* failure, an edit of unrelated state) invokes it.
C18_RecenterOnlyOnNewValidCenter ==
    [][ setViewCalls' # setViewCalls =>
            \/ MapViewMount /\ ValidCenter(mapCenter)
            \/ \E r \in inflight : \E data \in Responses :
                   AgentResolve(r, data) /\ ValidCenter(data.center) ]_vars

\* C19: the widget exists exactly when the mounted flag is set, and it was
\* initialized once; the flag never returns to false; and once it is set no
\* step changes the remount token, whatever center or places it stores.
C19_WidgetMountsOnce ==
    [][ /\ widgetInits' = (IF mounted' THEN 1 ELSE 0)
        /\ mounted => mounted'
        /\ mounted => mapKey' = mapKey ]_vars

\* C19 witness: the adapter is mounted, the widget was initialized once,
\* and setView ran twice, so a response stored a center after the mount;
\* places are stored as well.
C19_Witness ==
    /\ mounted
    /\ widgetInits = 1
    /\ setViewCalls = 2
    /\ mapCenter.t = "object"
    /\ mapPlaces # <<>>

\* C20 (as claimed; the code violates it): in every reachable state the stored error message is non-null
\* exactly when status is error.
C20_ErrorIffStatusError ==
    (error.t = "string") <=> (status = "error")

====
